---- MODULE Spec2Model ----
(***************************************************************************)
(* The two-phase "intent detection -> schema dispatch -> relay" handlers   *)
(* of app/api/stream-object/route.ts and                                   *)
(* app/api/generate-object-smart/route.ts.                                 *)
(*                                                                         *)
(* One behaviour is the handling of one request by one of the two POST     *)
(* handlers.  The generation backend (generateObject, streamObject,        *)
(* generateText) and the consumer of the response stream are the           *)
(* environment: what they return, and when, is chosen nondeterministically.*)
(* Every action is one synchronous run of the handler between two awaits.  *)
(***************************************************************************)
EXTENDS Integers, Sequences, FiniteSets, TLC

VARIABLES
    route,          \* which POST handler serves the request
    body,           \* the request body as req.json() will see it
    pc,             \* the await the handler is suspended at
    prompt,         \* const { prompt } = await req.json()
    intent,         \* const intent = intentDetection.object
    calls,          \* the calls issued to the generation backend, in order
    generated,      \* what the generation call of generate-object-smart returned
    response,       \* the Response the handler returned
    generator,      \* result.partialObjectStream as the for await loop sees it
    pulled,         \* the partial objects taken from result.partialObjectStream
    state,          \* ReadableStream [[state]]
    queue,          \* chunks enqueued and not yet read by the consumer
    closeRequested, \* controller.close() was called
    enqueued,       \* every chunk controller.enqueue() accepted, in order
    delivered,      \* the chunks the consumer has read
    cancelled,      \* the consumer cancelled the stream (caller went away)
    reqs,           \* concurrent stream-object requests: the locals of each invocation
    rt,             \* one request to any of the six POST routes, and its handling
    page            \* a client page (stream-object or stream-text) and its read loop

vars == <<route, body, pc, prompt, intent, calls, generated, response, generator, pulled,
          state, queue, closeRequested, enqueued, delivered, cancelled, reqs, rt, page>>

\* the state of the single request
soloVars == <<route, body, pc, prompt, intent, calls, generated, response, generator, pulled,
              state, queue, closeRequested, enqueued, delivered, cancelled>>

streamVars == <<state, queue, closeRequested, enqueued, delivered, cancelled>>

\* what no step of the single request changes: the request itself, and the
\* state of the concurrent, the six-route and the client-page specification
requestVars == <<route, body, reqs, rt, page>>

----------------------------------------------------------------------------
(* Bounds and input domains *)

MaxPartials == 2

Prompts == {"p1", "p2"}
Malformed == "malformed"
Bodies == Prompts \cup {Malformed}

Routes == {"stream-object", "generate-object-smart"}

NoValue == "none"

\* enum: [...] of the two classifier calls
StreamLabels == {"recipe", "person", "product", "story"}
SmartLabels == {"recipe", "person", "general-question", "product"}

\* what the classifier call can resolve to: a label of either endpoint, or a
\* value outside both sets (a backend that does not enforce the enum)
ClassifierValues == StreamLabels \cup SmartLabels \cup {"unknown"}

\* a structured-output value under construction: the snapshots of the object
\* {name: "ab", servings: "4"} as its text arrives, field by field and, within
\* a string, character by character
PartialObjects ==
    { [f \in {} |-> ""],
      [name |-> "a"],
      [name |-> "ab"],
      [name |-> "ab", servings |-> "4"] }
\* schema: z.object({...}) of a case, reduced to the two fields the snapshots
\* have: every field is required
RequiredFields == {"name", "servings"}
SatisfiesSchema(o) == DOMAIN o = RequiredFields

Texts == {"t1", "t2"}

\* what the generation call of a case can resolve to: text from generateText,
\* an object from generateObject
GenerationResults(label) ==
    IF label = "general-question"
    THEN {[text |-> t] : t \in Texts}
    ELSE {[object |-> o] : o \in PartialObjects}

\* the invocations of POST that are in flight together, and the prompt of each
Requests == {"r1", "r2"}
PromptOf(r) == IF r = "r1" THEN "p1" ELSE "p2"

\* the locals of one invocation of POST before its first statement
InitialRequest(b) ==
    [body |-> b, pc |-> "start", prompt |-> NoValue, intent |-> NoValue, calls |-> <<>>,
     generator |-> "none", pulled |-> <<>>,
     state |-> "none", closeRequested |-> FALSE, enqueued |-> <<>>, cancelled |-> FALSE]

\* the POST route handlers of the repository
AllRoutes == {"generating-text", "stream-text", "generate-object",
              "generate-object-smart", "stream-object", "mcp-demo"}

\* the cases of the switch (type) of generate-object, and a type outside them
ObjectTypes == {"recipe", "person", "product-list", "classification", "no-schema"}
RequestTypes == ObjectTypes \cup {"bogus"}

\* the request bodies: text that is not JSON, or a JSON object with the fields
\* the handler destructures (type for generate-object, repo for mcp-demo; a
\* missing repo is undefined)
BodiesOf(name) ==
    {[json |-> FALSE, type |-> NoValue, repo |-> NoValue]}
    \cup (IF name = "generate-object"
          THEN {[json |-> TRUE, type |-> t, repo |-> NoValue] : t \in RequestTypes}
          ELSE IF name = "mcp-demo"
          THEN {[json |-> TRUE, type |-> NoValue, repo |-> x] : x \in {"owner/name", "undefined"}}
          ELSE {[json |-> TRUE, type |-> NoValue, repo |-> NoValue]})

\* the parts result.fullStream yields: a text delta, or a part without text
StreamParts == {[type |-> "text-delta", textDelta |-> "x"],
                [type |-> "text-delta", textDelta |-> "y"],
                [type |-> "finish"]}

\* the names a rejected backend call can carry
ErrorNames == {"AI_NoObjectGeneratedError", "Error"}

Labels(r) == IF r = "stream-object" THEN StreamLabels ELSE SmartLabels

\* a switch whose default: falls back to the recipe schema
SwitchCaseDefaultsToRecipe(r, v) == IF v \in Labels(r) THEN v ELSE "recipe"

\* switch (intent) { case ...: ... default: ... }: the case a value selects
SwitchCase(r, v) == IF v \in Labels(r) THEN v ELSE "default"

----------------------------------------------------------------------------
(* Backend calls *)

Template(name, p) == [template |-> name, arg |-> p]

ClassifierCall(r, p) ==
    [fn |-> "generateObject", output |-> "enum",
     enum |-> Labels(r),
     schema |-> NoValue, prompt |-> Template("classify", p)]

\* a switch whose templated cases interpolate the label instead of the prompt
StreamObjectCallInterpolatesLabel(label, p) ==
    [fn |-> "streamObject", output |-> "object", enum |-> {},
     schema |-> label,
     prompt |-> CASE label = "recipe" -> Template("verbatim", p)
                  [] label = "person" -> Template("detailed information about", label)
                  [] label = "product" -> Template("detailed product information for", label)
                  [] label = "story" -> Template("creative story about", label)]

\* the streamObject call of each case of the switch
StreamObjectCall(label, p) ==
    [fn |-> "streamObject", output |-> "object", enum |-> {},
     schema |-> label,
     prompt |-> CASE label = "recipe" -> Template("verbatim", p)
                  [] label = "person" -> Template("detailed information about", p)
                  [] label = "product" -> Template("detailed product information for", p)
                  [] label = "story" -> Template("creative story about", p)]

\* a switch that sends general-question through generateObject with a schema
SmartCallAnswerSchema(label, p) ==
    CASE label = "recipe" ->
           [fn |-> "generateObject", output |-> "object", enum |-> {},
            schema |-> "recipe", prompt |-> Template("verbatim", p)]
      [] label = "person" ->
           [fn |-> "generateObject", output |-> "object", enum |-> {},
            schema |-> "person", prompt |-> Template("structured information about", p)]
      [] label = "general-question" ->
           [fn |-> "generateObject", output |-> "object", enum |-> {},
            schema |-> "general-question", prompt |-> Template("verbatim", p)]
      [] label = "product" ->
           [fn |-> "generateObject", output |-> "object", enum |-> {},
            schema |-> "product", prompt |-> Template("product information for", p)]

\* the generateObject / generateText call of each case of the switch
SmartCall(label, p) ==
    CASE label = "recipe" ->
           [fn |-> "generateObject", output |-> "object", enum |-> {},
            schema |-> "recipe", prompt |-> Template("verbatim", p)]
      [] label = "person" ->
           [fn |-> "generateObject", output |-> "object", enum |-> {},
            schema |-> "person", prompt |-> Template("structured information about", p)]
      [] label = "general-question" ->
           [fn |-> "generateText", output |-> "text", enum |-> {},
            schema |-> NoValue, prompt |-> Template("verbatim", p)]
      [] label = "product" ->
           [fn |-> "generateObject", output |-> "object", enum |-> {},
            schema |-> "product", prompt |-> Template("product information for", p)]

----------------------------------------------------------------------------
(* Responses *)

NoResponse == [status |-> 0, kind |-> "none"]

JsonError(status, message) ==
    [status |-> status, kind |-> "json", body |-> [error |-> message]]

\* the outer catch of each handler
CatchResponse(r) ==
    IF r = "stream-object"
    THEN JsonError(500, "Failed to stream object")
    ELSE JsonError(500, "Failed to generate response")

\* the default: branch of each switch
DefaultResponse(r) ==
    IF r = "stream-object"
    THEN JsonError(400, "Unknown intent")
    ELSE JsonError(400, "Could not determine intent")

StreamResponse ==
    [status |-> 200, kind |-> "stream",
     headers |-> [contentType |-> "text/event-stream", cacheControl |-> "no-cache",
                  connection |-> "keep-alive"]]

\* a product case that answers with the person case's type
SmartResponseWrongType(label, result) ==
    CASE label = "recipe" ->
           [status |-> 200, kind |-> "json", body |-> [type |-> "recipe", data |-> result.object]]
      [] label = "person" ->
           [status |-> 200, kind |-> "json", body |-> [type |-> "person", data |-> result.object]]
      [] label = "general-question" ->
           [status |-> 200, kind |-> "json",
            body |-> [type |-> "general-question", data |-> [answer |-> result.text]]]
      [] label = "product" ->
           [status |-> 200, kind |-> "json", body |-> [type |-> "person", data |-> result.object]]

\* Response.json({ type: ..., data: ... }) of each case of the smart switch
SmartResponse(label, result) ==
    CASE label = "recipe" ->
           [status |-> 200, kind |-> "json", body |-> [type |-> "recipe", data |-> result.object]]
      [] label = "person" ->
           [status |-> 200, kind |-> "json", body |-> [type |-> "person", data |-> result.object]]
      [] label = "general-question" ->
           [status |-> 200, kind |-> "json",
            body |-> [type |-> "general-question", data |-> [answer |-> result.text]]]
      [] label = "product" ->
           [status |-> 200, kind |-> "json", body |-> [type |-> "product", data |-> result.object]]

----------------------------------------------------------------------------
(* Frames: encoder.encode(JSON.stringify(frame) + '\n') *)

IntentFrame(label) == [type |-> "intent", intent |-> label]
PartialFrame(o) == [type |-> "partial", data |-> o]
CompleteFrame == [type |-> "complete"]

\* a serializer that sends only the newest field (a delta, not a snapshot)
StringifyObjectNewestFieldOnly(o) ==
    <<"{">>
    \o (IF "servings" \in DOMAIN o THEN <<"servings", o["servings"]>>
        ELSE IF "name" \in DOMAIN o THEN <<"name", o["name"]>> ELSE <<>>)
    \o <<"}">>

\* a serializer that loses the second field
StringifyObjectDropsServings(o) ==
    <<"{">>
    \o (IF "name" \in DOMAIN o THEN <<"name", o["name"]>> ELSE <<>>)
    \o <<"}">>

\* JSON.stringify of a partial object: the populated fields, in schema order
StringifyObject(o) ==
    <<"{">>
    \o (IF "name" \in DOMAIN o THEN <<"name", o["name"]>> ELSE <<>>)
    \o (IF "servings" \in DOMAIN o THEN <<"servings", o["servings"]>> ELSE <<>>)
    \o <<"}">>

\* JSON.stringify of a frame, as a sequence of tokens
Stringify(frame) ==
    <<"{", "type", frame.type>>
    \o (IF "intent" \in DOMAIN frame THEN <<"intent", frame.intent>> ELSE <<>>)
    \o (IF "data" \in DOMAIN frame THEN <<"data">> \o StringifyObject(frame.data) ELSE <<>>)
    \o <<"}">>

EncodeLine(frame) == Stringify(frame) \o <<"\n">>

\* JSON.stringify of a part of fullStream
StringifyPart(p) ==
    <<"{", "type", p.type>>
    \o (IF "textDelta" \in DOMAIN p THEN <<"textDelta", p.textDelta>> ELSE <<>>)
    \o <<"}">>

\* encoder.encode(`${JSON.stringify({ type: part.type, data: part })}\n`)
EncodePart(p) == <<"{", "type", p.type, "data">> \o StringifyPart(p) \o <<"}", "\n">>

----------------------------------------------------------------------------
(* ReadableStreamDefaultController, as the handler uses it *)

CanCloseOrEnqueue == state = "readable" /\ ~closeRequested

\* controller.enqueue(chunk), when it does not throw
Enqueue(chunk) ==
    /\ queue' = Append(queue, chunk)
    /\ enqueued' = Append(enqueued, chunk)

\* controller.error(e): nothing unless the stream is readable; otherwise the
\* stream is errored and the chunks not yet read are dropped
ControllerError ==
    IF state = "readable"
    THEN /\ state' = "errored"
         /\ queue' = <<>>
         /\ UNCHANGED <<closeRequested, enqueued, delivered, cancelled>>
    ELSE UNCHANGED streamVars

----------------------------------------------------------------------------
(* The client pages: useState values and the locals of handleSubmit *)

Pages == {"stream-object", "stream-text"}

\* what the prompt box can hold: nothing, white space only, or a prompt
PagePrompts == {"", " ", "p1"}

\* !prompt.trim()
Blank(p) == p \in {"", " "}

\* the page as first rendered; the stream-text page starts with a prompt
InitialPage(kind) ==
    [kind |-> kind,
     prompt |-> IF kind = "stream-text" THEN "p1" ELSE "",
     detectedIntent |-> NoValue, partialObject |-> <<>>,
     isStreaming |-> FALSE, isComplete |-> FALSE,
     events |-> <<>>, generatedText |-> <<>>,
     phase |-> "idle", buffer |-> <<>>, wire |-> <<>>,
     active |-> 0, requests |-> 0, submits |-> 0,
     outcome |-> "none", sent |-> <<>>, received |-> <<>>, seen |-> <<>>]

----------------------------------------------------------------------------
(* The six POST handlers, as far as their try / catch structure goes *)

\* a request to route name before the first statement of POST
InitialRoute(name, b) ==
    [name |-> name, body |-> b, pc |-> "start", intent |-> NoValue,
     calls |-> <<>>, failed |-> "none", error |-> NoValue,
     response |-> NoResponse, escaped |-> FALSE,
     source |-> "none", parts |-> <<>>,
     stream |-> "none", cancelled |-> FALSE, frames |-> <<>>, chunks |-> <<>>]

\* a catch that answers every failure of generate-object with the generic body
RouteCatchGenericOnly(name, errorName) ==
    CASE name = "generating-text" -> JsonError(500, "Failed to generate text")
      [] name = "stream-text" -> JsonError(500, "Failed to stream text")
      [] name = "generate-object" -> JsonError(500, "Failed to generate object")
      [] name = "generate-object-smart" -> CatchResponse(name)
      [] name = "stream-object" -> CatchResponse(name)
      [] name = "mcp-demo" -> JsonError(500, "error.message")

\* the catch of each POST: a JSON error body with status 500
RouteCatch(name, errorName) ==
    CASE name = "generating-text" -> JsonError(500, "Failed to generate text")
      [] name = "stream-text" -> JsonError(500, "Failed to stream text")
      [] name = "generate-object" ->
           IF errorName = "AI_NoObjectGeneratedError"
           THEN [status |-> 500, kind |-> "json",
                 body |-> [error |-> "Failed to generate valid object",
                           details |-> "text, cause"]]
           ELSE JsonError(500, "Failed to generate object")
      [] name = "generate-object-smart" -> CatchResponse(name)
      [] name = "stream-object" -> CatchResponse(name)
      [] name = "mcp-demo" -> JsonError(500, "error.message")

\* a generate-object whose cases all answer with the type of the first case
RouteSuccessTypeOfFirstCase(name, b, label) ==
    CASE name = "generating-text" ->
           [status |-> 200, kind |-> "json", body |-> [text |-> "text"]]
      [] name = "generate-object" ->
           [status |-> 200, kind |-> "json", body |-> [object |-> "object", type |-> "recipe"]]
      [] name = "generate-object-smart" ->
           [status |-> 200, kind |-> "json", body |-> [type |-> label, data |-> "object"]]
      [] name = "mcp-demo" ->
           [status |-> 200, kind |-> "json", body |-> [text |-> "text", toolCalls |-> "toolCalls"]]

\* what each handler returns when its awaited generation call resolves
RouteSuccess(name, b, label) ==
    CASE name = "generating-text" ->
           [status |-> 200, kind |-> "json", body |-> [text |-> "text"]]
      [] name = "generate-object" ->
           [status |-> 200, kind |-> "json", body |-> [object |-> "object", type |-> b.type]]
      [] name = "generate-object-smart" ->
           [status |-> 200, kind |-> "json", body |-> [type |-> label, data |-> "object"]]
      [] name = "mcp-demo" ->
           [status |-> 200, kind |-> "json", body |-> [text |-> "text", toolCalls |-> "toolCalls"]]

\* the generation call each non-dispatching handler awaits
RouteCall(name) ==
    CASE name = "generating-text" -> "generateText"
      [] name = "generate-object" -> "generateObject"
      [] name = "mcp-demo" -> "generateText"

\* which handlers have `await req.json()` inside their try block
ParsesInsideTry(name) == name # "mcp-demo"

----------------------------------------------------------------------------
Init ==
    /\ route \in Routes
    /\ body \in Bodies
    /\ pc = "start"
    /\ prompt = NoValue
    /\ intent = NoValue
    /\ calls = <<>>
    /\ generated = <<>>
    /\ response = NoResponse
    /\ generator = "none"
    /\ pulled = <<>>
    /\ state = "none"
    /\ queue = <<>>
    /\ closeRequested = FALSE
    /\ enqueued = <<>>
    /\ delivered = <<>>
    /\ cancelled = FALSE
    /\ reqs = [r \in Requests |-> InitialRequest(PromptOf(r))]
    /\ rt = InitialRoute("stream-object", [json |-> FALSE, type |-> NoValue, repo |-> NoValue])
    /\ page = InitialPage("stream-object")

\* a handler that starts the recipe generation alongside the classifier call
ReqJsonSpeculative ==
    /\ pc = "start"
    /\ IF body = Malformed
       THEN /\ response' = CatchResponse(route)
            /\ pc' = "done"
            /\ UNCHANGED <<prompt, calls>>
       ELSE /\ prompt' = body
            /\ calls' = <<ClassifierCall(route, body), SmartCall("recipe", body)>>
            /\ pc' = "classify"
            /\ UNCHANGED response
    /\ UNCHANGED <<intent, generated, generator, pulled>>
    /\ UNCHANGED <<requestVars, streamVars>>

\* const { prompt } = await req.json(); then the classifier call is issued.
\* A body that is not JSON makes req.json() reject: the outer catch answers.
ReqJson ==
    /\ pc = "start"
    /\ IF body = Malformed
       THEN /\ response' = CatchResponse(route)
            /\ pc' = "done"
            /\ UNCHANGED <<prompt, calls>>
       ELSE /\ prompt' = body
            /\ calls' = Append(calls, ClassifierCall(route, body))
            /\ pc' = "classify"
            /\ UNCHANGED response
    /\ UNCHANGED <<intent, generated, generator, pulled>>
    /\ UNCHANGED <<requestVars, streamVars>>

\* a handler that calls the classifier again when it rejects
ClassifierFailsRetry ==
    /\ pc = "classify"
    /\ Len(calls) < 2
    /\ calls' = Append(calls, ClassifierCall(route, prompt))
    /\ UNCHANGED <<pc, prompt, intent, generated, response, generator, pulled>>
    /\ UNCHANGED <<requestVars, streamVars>>

\* await generateObject({output: 'enum', ...}) rejects: the outer catch answers
ClassifierFails ==
    /\ pc = "classify"
    /\ response' = CatchResponse(route)
    /\ pc' = "done"
    /\ UNCHANGED <<prompt, intent, calls, generated, generator, pulled>>
    /\ UNCHANGED <<requestVars, streamVars>>

\* stream-object: the classifier resolves to v; the switch either starts
\* streamObject, builds the stream (start() runs up to its first await: the
\* intent frame is enqueued and the first partial object requested) and returns
\* the streaming Response, or takes the default: branch
StreamObjectDispatch(v) ==
    /\ pc = "classify"
    /\ route = "stream-object"
    /\ intent' = v
    /\ IF SwitchCase(route, v) # "default"
       THEN /\ calls' = Append(calls, StreamObjectCall(SwitchCase(route, v), prompt))
            /\ generator' = "running"
            /\ state' = "readable"
            /\ Enqueue(EncodeLine(IntentFrame(v)))
            /\ response' = StreamResponse
            /\ pc' = "relay"
            /\ UNCHANGED <<closeRequested, delivered, cancelled>>
       ELSE /\ response' = DefaultResponse(route)
            /\ pc' = "done"
            /\ UNCHANGED <<calls, generator>>
            /\ UNCHANGED streamVars
    /\ UNCHANGED <<prompt, generated, pulled>>
    /\ UNCHANGED requestVars

\* a relay that collects the partial objects instead of enqueuing each one
PartialArrivesBatched(o) ==
    /\ pc = "relay"
    /\ Len(pulled) < MaxPartials
    /\ pulled' = Append(pulled, o)
    /\ UNCHANGED <<pc, prompt, intent, calls, generated, response, generator>>
    /\ UNCHANGED <<requestVars, streamVars>>

\* for await (const partialObject of result.partialObjectStream): the next
\* partial object arrives and is enqueued as its own frame.  enqueue() throws
\* when the stream is no longer readable: leaving the loop returns the
\* iterator, and the catch calls controller.error.
PartialArrives(o) ==
    /\ pc = "relay"
    /\ Len(pulled) < MaxPartials
    /\ pulled' = Append(pulled, o)
    /\ IF CanCloseOrEnqueue
       THEN /\ Enqueue(EncodeLine(PartialFrame(o)))
            /\ pc' = "relay"
            /\ UNCHANGED <<state, closeRequested, delivered, cancelled>>
            /\ UNCHANGED generator
       ELSE /\ ControllerError
            /\ generator' = "returned"
            /\ pc' = "done"
    /\ UNCHANGED <<prompt, intent, calls, generated, response>>
    /\ UNCHANGED requestVars

\* a relay that closes the stream without the complete frame
GeneratorEndsNoComplete ==
    /\ pc = "relay"
    /\ IF CanCloseOrEnqueue
       THEN /\ closeRequested' = TRUE
            /\ state' = IF queue = <<>> THEN "closed" ELSE state
            /\ UNCHANGED <<queue, enqueued, delivered, cancelled>>
       ELSE ControllerError
    /\ generator' = "ended"
    /\ pc' = "done"
    /\ UNCHANGED <<prompt, intent, calls, generated, response, pulled>>
    /\ UNCHANGED requestVars

\* a relay that enqueues the complete frame and leaves the stream open
GeneratorEndsNoClose ==
    /\ pc = "relay"
    /\ IF CanCloseOrEnqueue
       THEN /\ Enqueue(EncodeLine(CompleteFrame))
            /\ UNCHANGED <<state, closeRequested, delivered, cancelled>>
       ELSE ControllerError
    /\ generator' = "ended"
    /\ pc' = "done"
    /\ UNCHANGED <<prompt, intent, calls, generated, response, pulled>>
    /\ UNCHANGED requestVars

\* the partial-object sequence ends: the complete frame is enqueued and the
\* stream closed (it reaches "closed" once the consumer has drained the queue)
GeneratorEnds ==
    /\ pc = "relay"
    /\ IF CanCloseOrEnqueue
       THEN /\ Enqueue(EncodeLine(CompleteFrame))
            /\ closeRequested' = TRUE
            /\ UNCHANGED <<state, delivered, cancelled>>
       ELSE ControllerError
    /\ generator' = "ended"
    /\ pc' = "done"
    /\ UNCHANGED <<prompt, intent, calls, generated, response, pulled>>
    /\ UNCHANGED requestVars

\* a catch that only logs the error and leaves the stream as it is
GeneratorFailsLoggedOnly ==
    /\ pc = "relay"
    /\ generator' = "failed"
    /\ pc' = "done"
    /\ UNCHANGED <<prompt, intent, calls, generated, response, pulled>>
    /\ UNCHANGED <<requestVars, streamVars>>

\* the partial-object sequence throws: catch (error) { controller.error(error) }
GeneratorFails ==
    /\ pc = "relay"
    /\ ControllerError
    /\ generator' = "failed"
    /\ pc' = "done"
    /\ UNCHANGED <<prompt, intent, calls, generated, response, pulled>>
    /\ UNCHANGED requestVars

handlerVars == <<pc, prompt, intent, calls, generated, response, generator, pulled>>

\* the consumer of the Response body reads the next chunk
Read ==
    /\ state = "readable"
    /\ queue # <<>>
    /\ delivered' = Append(delivered, Head(queue))
    /\ queue' = Tail(queue)
    /\ state' = IF closeRequested /\ Tail(queue) = <<>> THEN "closed" ELSE state
    /\ UNCHANGED <<closeRequested, enqueued, cancelled>>
    /\ UNCHANGED <<requestVars, handlerVars>>

\* the caller goes away: the consumer cancels the stream.  No cancel() handler
\* is registered, so the handler only notices at its next enqueue() or close().
Cancel ==
    /\ state = "readable"
    /\ state' = "closed"
    /\ queue' = <<>>
    /\ cancelled' = TRUE
    /\ UNCHANGED <<closeRequested, enqueued, delivered>>
    /\ UNCHANGED <<requestVars, handlerVars>>

\* generate-object-smart: the classifier resolves to v; the switch issues the
\* generation call of the matching case or takes the default: branch
SmartDispatch(v) ==
    /\ pc = "classify"
    /\ route = "generate-object-smart"
    /\ intent' = v
    /\ IF SwitchCase(route, v) # "default"
       THEN /\ calls' = Append(calls, SmartCall(SwitchCase(route, v), prompt))
            /\ pc' = "generate"
            /\ UNCHANGED response
       ELSE /\ response' = DefaultResponse(route)
            /\ pc' = "done"
            /\ UNCHANGED calls
    /\ UNCHANGED <<prompt, generated, generator, pulled>>
    /\ UNCHANGED <<requestVars, streamVars>>

\* await generateObject / generateText resolves: the case returns its Response
SmartGenerationReturns(result) ==
    /\ pc = "generate"
    /\ generated' = <<result>>
    /\ response' = SmartResponse(SwitchCase(route, intent), result)
    /\ pc' = "done"
    /\ UNCHANGED <<prompt, intent, calls, generator, pulled>>
    /\ UNCHANGED <<requestVars, streamVars>>

\* a handler that answers a failed generation with an empty 200 result
SmartGenerationFailsSwallowed ==
    /\ pc = "generate"
    /\ response' = [status |-> 200, kind |-> "json",
                    body |-> [type |-> intent, data |-> [f \in {} |-> ""]]]
    /\ pc' = "done"
    /\ UNCHANGED <<prompt, intent, calls, generated, generator, pulled>>
    /\ UNCHANGED <<requestVars, streamVars>>

\* a handler that issues the generation call again when it rejects
SmartGenerationFailsRetry ==
    /\ pc = "generate"
    /\ Len(calls) < 3
    /\ calls' = Append(calls, SmartCall(SwitchCase(route, intent), prompt))
    /\ UNCHANGED <<pc, prompt, intent, generated, response, generator, pulled>>
    /\ UNCHANGED <<requestVars, streamVars>>

\* await generateObject / generateText rejects: the outer catch answers
SmartGenerationFails ==
    /\ pc = "generate"
    /\ response' = CatchResponse(route)
    /\ pc' = "done"
    /\ UNCHANGED <<prompt, intent, calls, generated, generator, pulled>>
    /\ UNCHANGED <<requestVars, streamVars>>

Next ==
    \/ ReqJson
    \/ ClassifierFails
    \/ \E v \in ClassifierValues : StreamObjectDispatch(v)
    \/ \E o \in PartialObjects : PartialArrives(o)
    \/ GeneratorEnds
    \/ GeneratorFails
    \/ Read
    \/ Cancel
    \/ \E v \in ClassifierValues : SmartDispatch(v)
    \/ \E result \in GenerationResults(intent) : SmartGenerationReturns(result)
    \/ SmartGenerationFails

Spec == Init /\ [][Next]_vars

\* the same handler with a consumer that keeps reading the response body for
\* as long as there is a chunk to read (the runtime pumps the body to the
\* socket until the caller has everything or goes away)
SpecLive == Spec /\ WF_vars(Read)

----------------------------------------------------------------------------
(* The relay with a frame that cannot be serialized *)

\* JSON.stringify or encoder.encode throws for the partial object just taken
\* from the generator: nothing is enqueued, leaving the loop returns the
\* iterator, and the catch calls controller.error
SerializationFails(o) ==
    /\ pc = "relay"
    /\ Len(pulled) < MaxPartials
    /\ pulled' = Append(pulled, o)
    /\ ControllerError
    /\ generator' = "returned"
    /\ pc' = "done"
    /\ UNCHANGED <<prompt, intent, calls, generated, response>>
    /\ UNCHANGED requestVars

NextFrameFailure ==
    \/ Next
    \/ \E o \in PartialObjects : SerializationFails(o)

SpecFrameFailure == Init /\ [][NextFrameFailure]_vars

----------------------------------------------------------------------------
(* Concurrent requests to /api/stream-object.  Each invocation of POST has   *)
(* its own locals (prompt, intentDetection, intent, result, encoder, stream);*)
(* the module scope holds only imports and the constant maxDuration.  The    *)
(* steps of the invocations interleave at their awaits.  The consumer's      *)
(* reads are left out: they change nothing an invocation can observe.        *)

\* the classifier answers and partial objects explored for concurrent requests
ConcurrentValues == {"recipe", "story", "unknown"}
ConcurrentObjects == {[name |-> "a"], [name |-> "ab", servings |-> "4"]}

ConcurrentInit ==
    /\ route = "stream-object"
    /\ body = Malformed
    /\ pc = "start"
    /\ prompt = NoValue
    /\ intent = NoValue
    /\ calls = <<>>
    /\ generated = <<>>
    /\ response = NoResponse
    /\ generator = "none"
    /\ pulled = <<>>
    /\ state = "none"
    /\ queue = <<>>
    /\ closeRequested = FALSE
    /\ enqueued = <<>>
    /\ delivered = <<>>
    /\ cancelled = FALSE
    /\ rt = InitialRoute("stream-object", [json |-> FALSE, type |-> NoValue, repo |-> NoValue])
    /\ page = InitialPage("stream-object")
    /\ reqs \in {[r \in Requests |->
                    InitialRequest(IF r \in json THEN PromptOf(r) ELSE Malformed)] :
                 json \in SUBSET Requests}

\* controller.enqueue / controller.close of invocation r would not throw
ConcurrentCanCloseOrEnqueue(r) == reqs[r].state = "readable" /\ ~reqs[r].closeRequested

\* controller.error(e) on the stream of invocation r
ConcurrentErrored(r) == IF reqs[r].state = "readable" THEN "errored" ELSE reqs[r].state

\* const { prompt } = await req.json(); then the classifier call is issued
ConcurrentReqJson(r) ==
    /\ reqs[r].pc = "start"
    /\ reqs' = [reqs EXCEPT ![r] =
                  IF reqs[r].body = Malformed
                  THEN [@ EXCEPT !.pc = "done"]
                  ELSE [@ EXCEPT !.prompt = reqs[r].body,
                                 !.calls = Append(@, ClassifierCall("stream-object", reqs[r].body)),
                                 !.pc = "classify"]]
    /\ UNCHANGED <<soloVars, rt, page>>

\* the classifier call of invocation r rejects
ConcurrentClassifierFails(r) ==
    /\ reqs[r].pc = "classify"
    /\ reqs' = [reqs EXCEPT ![r].pc = "done"]
    /\ UNCHANGED <<soloVars, rt, page>>

\* the classifier call of invocation r resolves to v: switch, streamObject,
\* new ReadableStream (start() enqueues the intent frame), return Response
ConcurrentDispatch(r, v) ==
    /\ reqs[r].pc = "classify"
    /\ reqs' = [reqs EXCEPT ![r] =
                  IF SwitchCase("stream-object", v) # "default"
                  THEN [@ EXCEPT !.intent = v,
                                 !.calls = Append(@, StreamObjectCall(v, reqs[r].prompt)),
                                 !.generator = "running",
                                 !.state = "readable",
                                 !.enqueued = Append(@, EncodeLine(IntentFrame(v))),
                                 !.pc = "relay"]
                  ELSE [@ EXCEPT !.intent = v, !.pc = "done"]]
    /\ UNCHANGED <<soloVars, rt, page>>

\* a relay whose controller is a module-level variable: the partial object
\* goes to the stream the other invocation created, when there is one
ConcurrentPartialArrivesSharedController(r, o) ==
    LET other == CHOOSE q \in Requests : q # r
        target == IF reqs[other].state = "readable" /\ ~reqs[other].closeRequested
                  THEN other ELSE r
    IN  /\ reqs[r].pc = "relay"
        /\ Len(reqs[r].pulled) < MaxPartials
        /\ ConcurrentCanCloseOrEnqueue(target)
        /\ reqs' = [reqs EXCEPT ![r].pulled = Append(@, o),
                                ![target].enqueued = Append(@, EncodeLine(PartialFrame(o)))]
        /\ UNCHANGED <<soloVars, rt, page>>

\* the generator of invocation r yields its next partial object
ConcurrentPartialArrives(r, o) ==
    /\ reqs[r].pc = "relay"
    /\ Len(reqs[r].pulled) < MaxPartials
    /\ reqs' = [reqs EXCEPT ![r] =
                  IF ConcurrentCanCloseOrEnqueue(r)
                  THEN [@ EXCEPT !.pulled = Append(@, o),
                                 !.enqueued = Append(@, EncodeLine(PartialFrame(o)))]
                  ELSE [@ EXCEPT !.pulled = Append(@, o),
                                 !.state = ConcurrentErrored(r),
                                 !.generator = "returned",
                                 !.pc = "done"]]
    /\ UNCHANGED <<soloVars, rt, page>>

\* the partial-object sequence of invocation r ends: complete frame, close
ConcurrentGeneratorEnds(r) ==
    /\ reqs[r].pc = "relay"
    /\ reqs' = [reqs EXCEPT ![r] =
                  IF ConcurrentCanCloseOrEnqueue(r)
                  THEN [@ EXCEPT !.enqueued = Append(@, EncodeLine(CompleteFrame)),
                                 !.closeRequested = TRUE,
                                 !.generator = "ended",
                                 !.pc = "done"]
                  ELSE [@ EXCEPT !.state = ConcurrentErrored(r),
                                 !.generator = "ended",
                                 !.pc = "done"]]
    /\ UNCHANGED <<soloVars, rt, page>>

\* the partial-object sequence of invocation r throws: controller.error
ConcurrentGeneratorFails(r) ==
    /\ reqs[r].pc = "relay"
    /\ reqs' = [reqs EXCEPT ![r].state = ConcurrentErrored(r),
                            ![r].generator = "failed",
                            ![r].pc = "done"]
    /\ UNCHANGED <<soloVars, rt, page>>

\* the caller of invocation r goes away: its stream is cancelled
ConcurrentCancel(r) ==
    /\ reqs[r].state = "readable"
    /\ reqs' = [reqs EXCEPT ![r].state = "closed", ![r].cancelled = TRUE]
    /\ UNCHANGED <<soloVars, rt, page>>

ConcurrentNext ==
    \E r \in Requests :
        \/ ConcurrentReqJson(r)
        \/ ConcurrentClassifierFails(r)
        \/ \E v \in ConcurrentValues : ConcurrentDispatch(r, v)
        \/ \E o \in ConcurrentObjects : ConcurrentPartialArrives(r, o)
        \/ ConcurrentGeneratorEnds(r)
        \/ ConcurrentGeneratorFails(r)
        \/ ConcurrentCancel(r)

SpecConcurrent == ConcurrentInit /\ [][ConcurrentNext]_vars

----------------------------------------------------------------------------
(* One request to any of the six POST handlers *)

RoutesInit ==
    /\ route = "stream-object"
    /\ body = Malformed
    /\ pc = "start"
    /\ prompt = NoValue
    /\ intent = NoValue
    /\ calls = <<>>
    /\ generated = <<>>
    /\ response = NoResponse
    /\ generator = "none"
    /\ pulled = <<>>
    /\ state = "none"
    /\ queue = <<>>
    /\ closeRequested = FALSE
    /\ enqueued = <<>>
    /\ delivered = <<>>
    /\ cancelled = FALSE
    /\ reqs = [r \in Requests |-> InitialRequest(PromptOf(r))]
    /\ page = InitialPage("stream-object")
    /\ \E name \in AllRoutes : \E b \in BodiesOf(name) : rt = InitialRoute(name, b)

\* await req.json() rejects (the body is not JSON).  Inside the try the catch
\* answers; in mcp-demo the statement stands before the try, so the promise
\* POST returned rejects.
RouteBodyRejected ==
    /\ rt.pc = "start"
    /\ ~rt.body.json
    /\ rt' = IF ParsesInsideTry(rt.name)
             THEN [rt EXCEPT !.failed = "body", !.error = "SyntaxError", !.pc = "done",
                             !.response = RouteCatch(rt.name, "SyntaxError")]
             ELSE [rt EXCEPT !.failed = "body", !.error = "SyntaxError", !.pc = "done",
                             !.escaped = TRUE]
    /\ UNCHANGED <<soloVars, reqs, page>>

\* await req.json() resolves; the handler runs to its next await or return
RouteBodyParsed ==
    /\ rt.pc = "start"
    /\ rt.body.json
    /\ rt' =
         CASE rt.name = "generating-text" ->
                [rt EXCEPT !.calls = Append(@, RouteCall(rt.name)), !.pc = "generate"]
           [] rt.name = "stream-text" ->
                [rt EXCEPT !.calls = Append(@, "streamText"), !.source = "running",
                           !.stream = "readable",
                           !.response = StreamResponse, !.pc = "relay"]
           [] rt.name = "generate-object" ->
                IF rt.body.type \in ObjectTypes
                THEN [rt EXCEPT !.calls = Append(@, RouteCall(rt.name)), !.pc = "generate"]
                ELSE [rt EXCEPT !.response = JsonError(400, "Invalid type"), !.pc = "done"]
           [] rt.name \in Routes ->
                [rt EXCEPT !.calls = Append(@, "generateObject"), !.pc = "classify"]
           [] rt.name = "mcp-demo" ->
                IF rt.body.repo = "undefined"
                THEN [rt EXCEPT !.failed = "body", !.error = "TypeError", !.pc = "done",
                                !.response = RouteCatch(rt.name, "TypeError")]
                ELSE [rt EXCEPT !.calls = Append(@, RouteCall(rt.name)), !.pc = "generate"]
    /\ UNCHANGED <<soloVars, reqs, page>>

\* an awaited backend call rejects with an error of the given name
RouteBackendRejects(errorName) ==
    /\ rt.pc \in {"classify", "generate"}
    /\ rt' = [rt EXCEPT !.failed = "backend", !.error = errorName, !.pc = "done",
                        !.response = RouteCatch(rt.name, errorName)]
    /\ UNCHANGED <<soloVars, reqs, page>>

\* the classifier call of a dispatching handler resolves to v
RouteClassified(v) ==
    /\ rt.pc = "classify"
    /\ rt' =
         IF SwitchCase(rt.name, v) = "default"
         THEN [rt EXCEPT !.intent = v,
                         !.response = DefaultResponse(rt.name), !.pc = "done"]
         ELSE IF rt.name = "stream-object"
         THEN [rt EXCEPT !.intent = v,
                         !.calls = Append(@, "streamObject"), !.source = "running",
                         !.stream = "readable",
                         !.frames = Append(@, "intent"),
                         !.response = StreamResponse, !.pc = "relay"]
         ELSE [rt EXCEPT !.intent = v,
                         !.calls = Append(@, SmartCall(v, "p1").fn), !.pc = "generate"]
    /\ UNCHANGED <<soloVars, reqs, page>>

\* the awaited generation call resolves: the handler returns its 200 response
RouteBackendResolves ==
    /\ rt.pc = "generate"
    /\ rt' = [rt EXCEPT !.response = RouteSuccess(rt.name, rt.body, rt.intent), !.pc = "done"]
    /\ UNCHANGED <<soloVars, reqs, page>>

\* a stream-text relay that announces the end with a frame of its own
RouteStreamEndsWithComplete ==
    /\ rt.pc = "relay"
    /\ rt' = IF rt.stream = "readable"
             THEN [rt EXCEPT !.frames = Append(@, "complete"),
                             !.chunks = Append(@, EncodeLine(CompleteFrame)),
                             !.source = "ended", !.stream = "closed", !.pc = "done"]
             ELSE [rt EXCEPT !.source = "ended", !.pc = "done"]
    /\ UNCHANGED <<soloVars, reqs, page>>

\* the stream the backend call returned yields its next element p: one frame
\* is enqueued, or enqueue throws on a stream no longer readable (leaving the
\* loop returns the iterator; controller.error then does nothing)
RouteStreamYields(p) ==
    /\ rt.pc = "relay"
    /\ Len(rt.parts) < MaxPartials
    /\ rt' = IF rt.stream = "readable"
             THEN [rt EXCEPT !.parts = Append(@, p),
                             !.frames = Append(@, IF rt.name = "stream-object"
                                                  THEN "partial" ELSE p.type),
                             !.chunks = IF rt.name = "stream-object"
                                        THEN @ ELSE Append(@, EncodePart(p))]
             ELSE [rt EXCEPT !.parts = Append(@, p), !.source = "returned", !.pc = "done"]
    /\ UNCHANGED <<soloVars, reqs, page>>

\* the stream the backend call returned ends: (complete frame and) close; the
\* consumer's reads are left out, so a closed stream is one that was drained
RouteStreamEnds ==
    /\ rt.pc = "relay"
    /\ rt' = IF rt.stream = "readable"
             THEN [rt EXCEPT !.frames = IF rt.name = "stream-object"
                                        THEN Append(@, "complete") ELSE @,
                             !.source = "ended", !.stream = "closed", !.pc = "done"]
             ELSE [rt EXCEPT !.source = "ended", !.pc = "done"]
    /\ UNCHANGED <<soloVars, reqs, page>>

\* the stream the backend call returned throws: the catch inside start()
\* calls controller.error
RouteStreamThrows ==
    /\ rt.pc = "relay"
    /\ rt' = [rt EXCEPT !.failed = "stream", !.source = "failed", !.pc = "done",
                        !.stream = IF @ = "readable" THEN "errored" ELSE @]
    /\ UNCHANGED <<soloVars, reqs, page>>

\* the caller goes away while the response is streaming
RouteCancel ==
    /\ rt.pc = "relay"
    /\ rt.stream = "readable"
    /\ rt' = [rt EXCEPT !.stream = "closed", !.cancelled = TRUE]
    /\ UNCHANGED <<soloVars, reqs, page>>

RoutesNext ==
    \/ RouteBodyRejected
    \/ RouteBodyParsed
    \/ \E errorName \in ErrorNames : RouteBackendRejects(errorName)
    \/ \E v \in ClassifierValues : RouteClassified(v)
    \/ RouteBackendResolves
    \/ \E p \in StreamParts : RouteStreamYields(p)
    \/ RouteStreamEnds
    \/ RouteStreamThrows
    \/ RouteCancel

SpecRoutes == RoutesInit /\ [][RoutesNext]_vars

----------------------------------------------------------------------------
(* Reading the response body back: what the page's read loop does with the  *)
(* bytes (buffer.split('\n'), JSON.parse(line)).                            *)

RECURSIVE Flatten(_)
Flatten(chunks) ==
    IF chunks = <<>> THEN <<>> ELSE Head(chunks) \o Flatten(Tail(chunks))

\* buffer.split('\n'): the pieces between newlines; the last piece is what
\* follows the last newline
RECURSIVE Split(_, _)
Split(tokens, piece) ==
    IF tokens = <<>> THEN <<piece>>
    ELSE IF Head(tokens) = "\n" THEN <<piece>> \o Split(Tail(tokens), <<>>)
    ELSE Split(Tail(tokens), Append(piece, Head(tokens)))

SyntaxError == [type |-> "SyntaxError"]

IsObjectText(t) ==
    /\ Len(t) >= 2
    /\ t[1] = "{"
    /\ t[Len(t)] = "}"
    /\ (Len(t) - 2) % 2 = 0

ParseObject(t) ==
    LET inner == SubSeq(t, 2, Len(t) - 1)
        n == Len(inner) \div 2
    IN  [k \in {inner[2 * i - 1] : i \in 1..n} |->
            inner[2 * (CHOOSE i \in 1..n : inner[2 * i - 1] = k)]]

\* JSON.parse(line) of one frame; SyntaxError when the line is no JSON document
JSONParse(line) ==
    IF ~(Len(line) >= 4 /\ line[1] = "{" /\ line[2] = "type" /\ line[Len(line)] = "}")
    THEN SyntaxError
    ELSE LET rest == SubSeq(line, 4, Len(line) - 1)
         IN  IF rest = <<>> THEN [type |-> line[3]]
             ELSE IF rest[1] = "intent" /\ Len(rest) = 2
                  THEN [type |-> line[3], intent |-> rest[2]]
             ELSE IF rest[1] = "data" /\ IsObjectText(Tail(rest))
                  THEN [type |-> line[3], data |-> ParseObject(Tail(rest))]
             ELSE SyntaxError

\* the newline-terminated frames of a byte stream, parsed, in order
FramesOf(chunks) ==
    LET pieces == Split(Flatten(chunks), <<>>)
    IN  [i \in 1..(Len(pieces) - 1) |-> JSONParse(pieces[i])]

\* what follows the last newline of a byte stream
UnterminatedTail(chunks) ==
    LET pieces == Split(Flatten(chunks), <<>>) IN pieces[Len(pieces)]

----------------------------------------------------------------------------
(* The client pages: handleSubmit and its read loop.  Each action is one     *)
(* run of the page's code between two awaits (or one DOM event); the page is *)
(* rendered between them, so the handler sees the state values last set.     *)

MaxLines == 2
MaxSubmits == 2

\* a line that is no JSON document
BadLine == <<"{", "type">>

\* the lines a response body can consist of, without their newline
PageLines(kind) ==
    IF kind = "stream-object"
    THEN {Stringify(IntentFrame("recipe")), Stringify(PartialFrame([name |-> "a"])),
          Stringify(CompleteFrame), BadLine, <<" ">>}
    ELSE {SubSeq(EncodePart(p), 1, Len(EncodePart(p)) - 1) : p \in StreamParts}
         \cup {BadLine}

\* the response bodies: up to MaxLines lines
PageBodies(kind) == UNION {[1..n -> PageLines(kind)] : n \in 0..MaxLines}

\* the bytes of a body: every line followed by a newline
RECURSIVE WireOf(_)
WireOf(lines) ==
    IF lines = <<>> THEN <<>> ELSE Head(lines) \o <<"\n">> \o WireOf(Tail(lines))

\* !line.trim()
IsBlankLine(line) == \A i \in DOMAIN line : line[i] = " "

\* a loop that splits each chunk on its own and keeps no buffer
SplitLinesUnbuffered(buffer, chunk) == Split(chunk, <<>>)

\* buffer += decoder.decode(value); buffer.split('\n'): the complete lines,
\* followed by what comes after the last newline
SplitLines(buffer, chunk) == Split(buffer \o chunk, <<>>)

\* the event handling of the stream-object page
ObjectEvent(p, event) ==
    IF event.type = "intent"
    THEN [p EXCEPT !.detectedIntent =
                      IF "intent" \in DOMAIN event THEN event.intent ELSE "undefined"]
    ELSE IF event.type = "partial"
    THEN [p EXCEPT !.partialObject =
                      IF "data" \in DOMAIN event THEN <<event.data>> ELSE <<>>]
    ELSE IF event.type = "complete"
    THEN [p EXCEPT !.isComplete = TRUE]
    ELSE p

\* a stream-text page that shows the newest delta instead of appending it
TextEventNewestDeltaOnly(p, event) ==
    IF event.type = "text-delta"
    THEN [p EXCEPT !.events = Append(@, event),
                   !.generatedText = <<event.data.textDelta>>]
    ELSE [p EXCEPT !.events = Append(@, event)]

\* the event handling of the stream-text page
TextEvent(p, event) ==
    IF event.type = "text-delta"
    THEN [p EXCEPT !.events = Append(@, event),
                   !.generatedText = @ \o <<event.data.textDelta>>]
    ELSE [p EXCEPT !.events = Append(@, event)]

\* the body of `for (const line of lines)`: blank lines are passed over, a
\* line JSON.parse rejects is logged and passed over, any other is handled
ProcessLine(p, line) ==
    IF IsBlankLine(line) THEN p
    ELSE LET event == JSONParse(line)
         IN  IF event = SyntaxError THEN p
             ELSE LET q == [p EXCEPT !.seen = Append(@, event)]
                  IN  IF p.kind = "stream-object"
                      THEN ObjectEvent(q, event) ELSE TextEvent(q, event)

\* a loop that gives up the rest of the chunk at the first line it cannot parse
RECURSIVE ProcessLinesStopAtBadLine(_, _)
ProcessLinesStopAtBadLine(p, lines) ==
    IF lines = <<>> THEN p
    ELSE IF ~IsBlankLine(Head(lines)) /\ JSONParse(Head(lines)) = SyntaxError THEN p
    ELSE ProcessLinesStopAtBadLine(ProcessLine(p, Head(lines)), Tail(lines))

\* for (const line of lines) { ... }
RECURSIVE ProcessLines(_, _)
ProcessLines(p, lines) ==
    IF lines = <<>> THEN p
    ELSE ProcessLines(ProcessLine(p, Head(lines)), Tail(lines))

ErrorObject == [error |-> "Failed to stream object"]
ErrorEvent == [type |-> "error", data |-> [message |-> "Failed to stream text"]]

\* the outer catch of handleSubmit, followed by its finally
CatchAndFinally(p, why) ==
    LET q == IF p.kind = "stream-object"
             THEN [p EXCEPT !.partialObject = <<ErrorObject>>]
             ELSE [p EXCEPT !.events = Append(@, ErrorEvent)]
    IN  [q EXCEPT !.isStreaming = FALSE, !.phase = "idle", !.active = @ - 1,
                  !.outcome = why]

PageInit ==
    /\ route = "stream-object"
    /\ body = Malformed
    /\ pc = "start"
    /\ prompt = NoValue
    /\ intent = NoValue
    /\ calls = <<>>
    /\ generated = <<>>
    /\ response = NoResponse
    /\ generator = "none"
    /\ pulled = <<>>
    /\ state = "none"
    /\ queue = <<>>
    /\ closeRequested = FALSE
    /\ enqueued = <<>>
    /\ delivered = <<>>
    /\ cancelled = FALSE
    /\ reqs = [r \in Requests |-> InitialRequest(PromptOf(r))]
    /\ rt = InitialRoute("stream-object", [json |-> FALSE, type |-> NoValue, repo |-> NoValue])
    /\ page \in {InitialPage(kind) : kind \in Pages}

\* onChange of the prompt box, which is disabled while streaming
SetPrompt(p) ==
    /\ ~page.isStreaming
    /\ page.prompt # p
    /\ page' = [page EXCEPT !.prompt = p]
    /\ UNCHANGED <<soloVars, reqs, rt>>

\* a handleSubmit without the guard on isStreaming
SubmitUnguarded ==
    /\ page.submits < MaxSubmits
    /\ page' =
         IF Blank(page.prompt)
         THEN [page EXCEPT !.submits = @ + 1]
         ELSE [page EXCEPT !.submits = @ + 1,
                           !.detectedIntent = NoValue, !.partialObject = <<>>,
                           !.isComplete = FALSE,
                           !.events = <<>>, !.generatedText = <<>>,
                           !.isStreaming = TRUE,
                           !.phase = "fetching", !.active = @ + 1, !.requests = @ + 1,
                           !.buffer = <<>>, !.wire = <<>>,
                           !.outcome = "none", !.sent = <<>>, !.received = <<>>,
                           !.seen = <<>>]
    /\ UNCHANGED <<soloVars, reqs, rt>>

\* a submit event: handleSubmit up to `await fetch(...)`.  With a blank prompt
\* or while streaming it returns at once; otherwise it resets the page state,
\* sets isStreaming and starts the request.
Submit ==
    /\ page.submits < MaxSubmits
    /\ page' =
         IF Blank(page.prompt) \/ page.isStreaming
         THEN [page EXCEPT !.submits = @ + 1]
         ELSE [page EXCEPT !.submits = @ + 1,
                           !.detectedIntent = NoValue, !.partialObject = <<>>,
                           !.isComplete = FALSE,
                           !.events = <<>>, !.generatedText = <<>>,
                           !.isStreaming = TRUE,
                           !.phase = "fetching", !.active = @ + 1, !.requests = @ + 1,
                           !.buffer = <<>>, !.wire = <<>>,
                           !.outcome = "none", !.sent = <<>>, !.received = <<>>,
                           !.seen = <<>>]
    /\ UNCHANGED <<soloVars, reqs, rt>>

\* fetch rejects, or resolves with a response that is not OK: throw, catch
FetchFails(why) ==
    /\ page.phase = "fetching"
    /\ page' = CatchAndFinally(page, why)
    /\ UNCHANGED <<soloVars, reqs, rt>>

\* fetch resolves with an OK response whose body will be the given lines; the
\* reader is taken and the first read() is pending
FetchResolves(lines) ==
    /\ page.phase = "fetching"
    /\ page' = [page EXCEPT !.phase = "reading", !.buffer = <<>>,
                            !.sent = lines, !.wire = WireOf(lines)]
    /\ UNCHANGED <<soloVars, reqs, rt>>

\* reader.read() resolves with the next n bytes of the body
ChunkArrives(n) ==
    /\ page.phase = "reading"
    /\ n \in 1..Len(page.wire)
    /\ LET chunk == SubSeq(page.wire, 1, n)
           pieces == SplitLines(page.buffer, chunk)
           lines == SubSeq(pieces, 1, Len(pieces) - 1)
           p == [page EXCEPT !.wire = SubSeq(@, n + 1, Len(@)),
                             !.received = @ \o chunk,
                             !.buffer = pieces[Len(pieces)]]
       IN  page' = ProcessLines(p, lines)
    /\ UNCHANGED <<soloVars, reqs, rt>>

\* reader.read() resolves with done: break, finally
StreamEnds ==
    /\ page.phase = "reading"
    /\ page.wire = <<>>
    /\ page' = [page EXCEPT !.isStreaming = FALSE, !.phase = "idle", !.active = @ - 1,
                            !.outcome = "ended"]
    /\ UNCHANGED <<soloVars, reqs, rt>>

\* reader.read() rejects (the server errored the stream, or the connection
\* was lost): catch, finally
ReadFails ==
    /\ page.phase = "reading"
    /\ page' = CatchAndFinally(page, "read failed")
    /\ UNCHANGED <<soloVars, reqs, rt>>

PageNext ==
    \/ \E p \in PagePrompts : SetPrompt(p)
    \/ Submit
    \/ \E why \in {"fetch rejected", "not ok"} : FetchFails(why)
    \/ \E lines \in PageBodies(page.kind) : FetchResolves(lines)
    \/ \E n \in 1..Len(page.wire) : ChunkArrives(n)
    \/ StreamEnds
    \/ ReadFails

SpecPage == PageInit /\ [][PageNext]_vars

----------------------------------------------------------------------------
(* Properties *)

\* the frames the handler has put on the response stream
Emitted == FramesOf(enqueued)

Positions(type) == {i \in DOMAIN Emitted : Emitted[i].type = type}

\* the data payloads of the partial frames, in stream order
RECURSIVE PayloadsOf(_)
PayloadsOf(frames) ==
    IF frames = <<>> THEN <<>>
    ELSE IF Head(frames).type = "partial"
         THEN <<Head(frames).data>> \o PayloadsOf(Tail(frames))
         ELSE PayloadsOf(Tail(frames))

TerminalTypes == {"complete", "error"}

Streaming == route = "stream-object" /\ state # "none"

\* a stream-object request in which nothing failed: a registered label, a
\* partial-object sequence that ended, and a caller that stayed to the end
SuccessfulStream ==
    /\ route = "stream-object"
    /\ pc = "done"
    /\ intent \in StreamLabels
    /\ generator = "ended"
    /\ ~cancelled

\* C1: a successful stream-object request (registered label, the generator's
\* sequence ended without failure, the caller did not cancel the stream)
\* emitted exactly one intent frame, before every partial frame, and exactly
\* one complete frame, after every partial frame; every frame is a
\* newline-terminated JSON document of one of these three types.
C1_FrameOrdering ==
    SuccessfulStream =>
        /\ UnterminatedTail(enqueued) = <<>>
        /\ \A i \in DOMAIN Emitted : Emitted[i].type \in {"intent", "partial", "complete"}
        /\ Cardinality(Positions("intent")) = 1
        /\ Cardinality(Positions("complete")) = 1
        /\ \A i \in Positions("intent") : \A j \in Positions("partial") : i < j
        /\ \A i \in Positions("complete") : \A j \in Positions("partial") : j < i
        /\ \A i \in Positions("intent") : Emitted[i].intent = intent

C1_Witness ==
    /\ SuccessfulStream
    /\ Len(pulled) >= 2
    /\ Cardinality(Positions("partial")) >= 2

\* C2: when the generator fails after the intent frame was emitted, the last
\* frame of the response stream is a well-formed error frame.
C2_ErrorFrameOnFailure ==
    (route = "stream-object" /\ pc = "done" /\ generator = "failed"
        /\ Positions("intent") # {})
    => /\ UnterminatedTail(enqueued) = <<>>
       /\ Emitted[Len(Emitted)].type = "error"

\* C3: a classifier value outside the endpoint's label set is answered with
\* HTTP 400 and a JSON error body, with no generation call and no frame; every
\* intent frame and every type of a smart response is a registered label.
C3_LabelMembership ==
    /\ (intent # NoValue /\ intent \notin Labels(route)) =>
          /\ pc = "done"
          /\ response.kind = "json"
          /\ response.status = 400
          /\ DOMAIN response.body = {"error"}
          /\ Len(calls) = 1
          /\ calls[1].output = "enum"
          /\ state = "none"
          /\ enqueued = <<>>
    /\ \A i \in Positions("intent") : Emitted[i].intent \in StreamLabels
    /\ (route = "generate-object-smart" /\ response.status = 200) =>
          response.body.type \in SmartLabels

C3_Witness ==
    /\ pc = "done"
    /\ intent # NoValue
    /\ intent \notin Labels(route)
    /\ response.status = 400

\* the classifier call rejected
ClassifierFailed == pc = "done" /\ body # Malformed /\ intent = NoValue

\* C4 as stated: a failed classifier call is answered with HTTP 400 and a JSON
\* body, and the classifier is not called again.
C4_ClassifierFailureIs400 ==
    ClassifierFailed =>
        /\ response.kind = "json"
        /\ response.status = 400
        /\ Len(calls) = 1

\* C4 amended: a failed classifier call is answered, by either endpoint, with
\* HTTP 500 and a JSON {error} body; no stream is opened and no frame emitted,
\* and the one classifier call is the only backend call of the request.
C4_ClassifierFailureIs500 ==
    /\ pc = "classify" => Len(calls) = 1
    /\ ClassifierFailed =>
        /\ response.kind = "json"
        /\ response.status = 500
        /\ DOMAIN response.body = {"error"}
        /\ Len(calls) = 1
        /\ calls[1].output = "enum"
        /\ state = "none"
        /\ enqueued = <<>>

C4_Witness ==
    /\ ClassifierFailed
    /\ response.status = 500
    /\ route = "stream-object"

TerminalPositions == {i \in DOMAIN Emitted : Emitted[i].type \in TerminalTypes}

\* C5: in every state of the relay at most one terminal frame has been
\* emitted, it is the last frame emitted, and once it is emitted close() has
\* been called: the stream accepts no further chunk and is closed as soon as
\* the consumer has drained it.
C5_OneTerminalFrameThenClose ==
    /\ Cardinality(TerminalPositions) <= 1
    /\ \A i \in TerminalPositions : i = Len(Emitted)
    /\ TerminalPositions # {} =>
          /\ closeRequested
          /\ ~CanCloseOrEnqueue
          /\ (queue = <<>> => state = "closed")

C5_Witness ==
    /\ TerminalPositions # {}
    /\ ~cancelled
    /\ state = "closed"
    /\ Len(pulled) >= 1

C7_NoBatching ==
    Streaming =>
        Len(pulled) - Cardinality(Positions("partial")) \in {0, 1}

C7_Witness ==
    /\ Streaming
    /\ pc = "relay"
    /\ Len(pulled) = 2
    /\ Cardinality(Positions("partial")) = 2

\* a generate-object-smart request whose classifier and generation call both
\* succeeded with a registered label
SmartSucceeded ==
    /\ route = "generate-object-smart"
    /\ pc = "done"
    /\ intent \in SmartLabels
    /\ generated # <<>>

\* C8 as stated: a succeeded smart request is answered with HTTP 200 and a body
\* {type, data} whose type is the classifier's label and whose data is the
\* object the generation call produced.
C8_SmartBodyIsGeneratedObject ==
    SmartSucceeded =>
        /\ response.status = 200
        /\ response.kind = "json"
        /\ DOMAIN response.body = {"type", "data"}
        /\ response.body.type = intent
        /\ "object" \in DOMAIN generated[1]
        /\ response.body.data = generated[1].object

\* C8 amended: a succeeded smart request is answered with HTTP 200 and a body
\* {type, data} whose type is the classifier's label; data is the object the
\* generateObject call produced for recipe, person and product, and is
\* {answer: text} around the text the generateText call produced for
\* general-question.
C8_SmartBodyIsGeneratedResult ==
    SmartSucceeded =>
        /\ response.status = 200
        /\ response.kind = "json"
        /\ DOMAIN response.body = {"type", "data"}
        /\ response.body.type = intent
        /\ IF intent = "general-question"
           THEN /\ DOMAIN generated[1] = {"text"}
                /\ response.body.data = [answer |-> generated[1].text]
           ELSE /\ DOMAIN generated[1] = {"object"}
                /\ response.body.data = generated[1].object

C8_Witness ==
    /\ SmartSucceeded
    /\ intent = "product"
    /\ response.body.data = [name |-> "ab", servings |-> "4"]

\* the generation call of generate-object-smart rejected
SmartGenerationFailed ==
    /\ route = "generate-object-smart"
    /\ pc = "done"
    /\ Len(calls) = 2
    /\ generated = <<>>

\* C9: a smart request whose classifier call or generation call failed is
\* answered with a JSON {error} body and status 400 or 500; a 200 response, or
\* a body with type and data, is given only when both calls succeeded.
C9_SmartFailureBody ==
    /\ (route = "generate-object-smart" /\ (ClassifierFailed \/ SmartGenerationFailed)) =>
          /\ response.kind = "json"
          /\ response.status \in {400, 500}
          /\ DOMAIN response.body = {"error"}
    /\ (route = "generate-object-smart" /\ pc = "done" /\ ~SmartSucceeded) =>
          /\ response.status # 200
          /\ DOMAIN response.body = {"error"}

C9_Witness ==
    /\ SmartGenerationFailed
    /\ response.status = 500

\* C10: the pipeline is sequential: the first backend call is the classifier
\* call, a generation call is issued only after the classifier returned a
\* registered label, no frame is emitted before the label is known, and no
\* generation call is issued when the classifier fails.
C10_Sequential ==
    /\ calls # <<>> => calls[1] = ClassifierCall(route, prompt)
    /\ \A i \in DOMAIN calls : i >= 2 => calls[i].output # "enum"
    /\ Len(calls) >= 2 => intent \in Labels(route)
    /\ (enqueued # <<>> \/ state # "none") => intent \in Labels(route)
    /\ intent = NoValue => Len(calls) <= 1

C10_Witness ==
    /\ Len(calls) = 2
    /\ calls[2].fn = "streamObject"
    /\ Len(enqueued) >= 2

ClassifierCalls == {i \in DOMAIN calls : calls[i].output = "enum"}
GenerationCalls == {i \in DOMAIN calls : calls[i].output # "enum"}

\* C11: handling one request (with a JSON body) issues exactly one classifier
\* call and at most one generation call; after a classifier failure the
\* classifier call stays the only backend call, and after a generation failure
\* the two calls stay the only ones (nothing is retried).
C11_OneClassifierAtMostOneGeneration ==
    /\ Cardinality(ClassifierCalls) <= 1
    /\ Cardinality(GenerationCalls) <= 1
    /\ (pc # "start" /\ body # Malformed) => Cardinality(ClassifierCalls) = 1
    /\ ClassifierFailed => Len(calls) = 1
    /\ (generator = "failed" \/ SmartGenerationFailed) => Len(calls) = 2
    /\ pc = "generate" => Len(calls) = 2

C11_Witness ==
    /\ SmartGenerationFailed
    /\ Cardinality(ClassifierCalls) = 1
    /\ Cardinality(GenerationCalls) = 1

\* the labels whose case passes `prompt` itself to the generation call
VerbatimLabels == {"recipe", "general-question"}

\* C12 as stated: for every registered label of both endpoints the prompt of
\* the generation call equals the prompt received in the request body.
C12_GenerationPromptIsRequestPrompt ==
    Len(calls) >= 2 => calls[2].prompt = Template("verbatim", body)

\* C12, amended: the generation call carries the schema registered for the
\* returned label (none for general-question), and its prompt contains the
\* request's prompt unchanged: alone for recipe and general-question, embedded
\* in the case's instruction sentence for person, product and story.
C12_SchemaOfLabelAndPromptEmbedded ==
    Len(calls) >= 2 =>
        /\ intent \in Labels(route)
        /\ calls[2].schema = (IF intent = "general-question" THEN NoValue ELSE intent)
        /\ calls[2].prompt.arg = body
        /\ calls[2].prompt.arg = prompt
        /\ (calls[2].prompt.template = "verbatim") <=> (intent \in VerbatimLabels)

C12_Witness ==
    /\ route = "stream-object"
    /\ Len(calls) = 2
    /\ intent = "story"
    /\ calls[2].schema = "story"
    /\ calls[2].prompt = Template("creative story about", "p2")

\* C14: once the caller has disconnected (the response stream was cancelled)
\* while the handler is relaying, no further partial object is pulled from the
\* generator.
C14_NoPullAfterDisconnect == [][cancelled => pulled' = pulled]_vars

\* a registered label is answered with the streaming Response, whose body is
\* newline-delimited JSON
RegisteredLabelStreams ==
    (route = "stream-object" /\ intent \in StreamLabels) =>
        /\ response.status = 200
        /\ response.kind = "stream"
        /\ response.headers.contentType = "text/event-stream"
        /\ response.headers.cacheControl = "no-cache"
        /\ UnterminatedTail(enqueued) = <<>>
        /\ \A i \in DOMAIN Emitted : Emitted[i] # SyntaxError

\* a failure before the stream exists (body, classifier, unregistered label) is
\* a JSON error body with a non-200 status and not a single frame
EarlyFailureIsJsonError ==
    (route = "stream-object" /\ pc = "done" /\ intent \notin StreamLabels) =>
        /\ response.kind = "json"
        /\ response.status # 200
        /\ DOMAIN response.body = {"error"}
        /\ enqueued = <<>>
        /\ state = "none"

\* a failure of the generation, with the caller still connected, is told to the
\* caller by a frame of the body
LateFailureIsInStream ==
    (route = "stream-object" /\ generator = "failed" /\ ~cancelled) =>
        /\ response.kind = "stream"
        /\ \E i \in DOMAIN Emitted : Emitted[i].type = "error"

\* C16: a stream-object request whose classifier returned a registered label
\* is answered with HTTP 200, Content-Type text/event-stream, Cache-Control
\* no-cache and a body of newline-delimited JSON frames; a failure during
\* generation is reported inside that stream and never as an HTTP 500 JSON
\* body; a failure before that point is a JSON {error} body with a non-200
\* status and no frames.
C16_StreamOrJsonError ==
    /\ RegisteredLabelStreams
    /\ EarlyFailureIsJsonError
    /\ LateFailureIsInStream

\* b refines a: every field populated in a is populated in b with the same value
Refines(a, b) ==
    /\ DOMAIN a \subseteq DOMAIN b
    /\ \A f \in DOMAIN a : b[f] = a[f]

MonotonicallyRefining(s) == \A i \in 1..(Len(s) - 1) : Refines(s[i], s[i + 1])

C18_CompleteImpliesValidFinalObject ==
    (Streaming /\ Positions("complete") # {}) =>
        /\ PayloadsOf(Emitted) # <<>>
        /\ SatisfiesSchema(PayloadsOf(Emitted)[Len(PayloadsOf(Emitted))])

\* the calls of a given backend function issued after the classifier call
CallsAfterClassification(fn) == {i \in DOMAIN calls : i >= 2 /\ calls[i].fn = fn}

\* C19: in generate-object-smart the label general-question is routed to plain
\* text generation: after classification exactly one generateText call and no
\* generateObject call is made, and the 200 response is
\* {type: "general-question", data: {answer: <generated text>}}; every other
\* registered label is routed to one generateObject call with its own schema.
C19_GeneralQuestionIsTextGeneration ==
    (route = "generate-object-smart" /\ intent \in SmartLabels) =>
        /\ Len(calls) = 2
        /\ IF intent = "general-question"
           THEN /\ Cardinality(CallsAfterClassification("generateText")) = 1
                /\ CallsAfterClassification("generateObject") = {}
                /\ calls[2].schema = NoValue
                /\ SmartSucceeded =>
                      response = [status |-> 200, kind |-> "json",
                                  body |-> [type |-> "general-question",
                                            data |-> [answer |-> generated[1].text]]]
           ELSE /\ Cardinality(CallsAfterClassification("generateObject")) = 1
                /\ CallsAfterClassification("generateText") = {}
                /\ calls[2].output = "object"
                /\ calls[2].schema = intent

C19_Witness ==
    /\ SmartSucceeded
    /\ intent = "general-question"
    /\ calls[2].fn = "generateText"
    /\ response.body = [type |-> "general-question", data |-> [answer |-> "t2"]]

\* the relay loop was left by an exception: a frame could not be written
\* (the caller had cancelled the stream) or could not be serialized
FrameFailed == route = "stream-object" /\ pc = "done" /\ generator = "returned"

\* C15: when serializing or writing one frame fails in the relay, an error
\* frame is emitted if the transport is still writable (the caller has not
\* cancelled), and otherwise the transport is closed; start() never throws.
C15_FrameFailureEndsInErrorFrameOrClose ==
    FrameFailed =>
        IF cancelled
        THEN state = "closed"
        ELSE /\ Emitted # <<>>
             /\ Emitted[Len(Emitted)].type = "error"
             /\ state # "errored"

RECURSIVE EncodeAll(_)
EncodeAll(objects) ==
    IF objects = <<>> THEN <<>>
    ELSE <<EncodeLine(PartialFrame(Head(objects)))>> \o EncodeAll(Tail(objects))

\* the chunks one request, handled alone with a caller that stays, puts on its
\* stream for a given classifier answer and a given run of its generator
AloneChunks(label, objects, ending) ==
    <<EncodeLine(IntentFrame(label))>>
    \o EncodeAll(objects)
    \o (IF ending = "ended" THEN <<EncodeLine(CompleteFrame)>> ELSE <<>>)

IsPrefix(s, t) == Len(s) <= Len(t) /\ SubSeq(t, 1, Len(s)) = s

\* the single request, handled alone, does produce AloneChunks
AloneChunksIsTheSingleRequestStream ==
    (Streaming /\ ~cancelled) => enqueued = AloneChunks(intent, pulled, generator)

\* C13: for every interleaving of the steps of concurrent stream-object
\* requests, the stream of each request holds only the label its own
\* classifier call returned and only the partial objects its own generator
\* yielded, frame by frame what the request would have produced alone (up to
\* the point where its caller went away); its backend calls carry its own
\* prompt.
C13_RequestsAreIsolated ==
    \A r \in Requests :
        LET q == reqs[r]
            alone == AloneChunks(q.intent, q.pulled, q.generator)
        IN  /\ \A i \in DOMAIN q.calls : q.calls[i].prompt.arg = PromptOf(r)
            /\ q.state = "none" => q.enqueued = <<>>
            /\ q.state # "none" =>
                  /\ IsPrefix(q.enqueued, alone)
                  /\ ~q.cancelled => q.enqueued = alone
                  /\ IsPrefix(PayloadsOf(FramesOf(q.enqueued)), q.pulled)
                  /\ \A i \in DOMAIN FramesOf(q.enqueued) :
                        FramesOf(q.enqueued)[i].type = "intent" =>
                            FramesOf(q.enqueued)[i].intent = q.intent

C13_Witness ==
    /\ reqs["r1"].pc = "relay" /\ reqs["r2"].pc = "relay"
    /\ reqs["r1"].intent = "recipe" /\ reqs["r2"].intent = "story"
    /\ reqs["r1"].pulled = <<[name |-> "a"]>>
    /\ reqs["r2"].pulled = <<[name |-> "ab", servings |-> "4"], [name |-> "a"]>>
    /\ reqs["r1"].enqueued = AloneChunks("recipe", reqs["r1"].pulled, "running")
    /\ reqs["r2"].enqueued = AloneChunks("story", reqs["r2"].pulled, "running")

\* C20: each of the six POST handlers contains every failure of parsing the
\* request body or of an awaited backend call: the failure is caught inside
\* the handler and answered with a JSON {error} body, and the promise POST
\* returned never rejects.
C20_FailuresContained ==
    /\ ~rt.escaped
    /\ (rt.pc = "done" /\ rt.failed \in {"body", "backend"}) =>
          /\ rt.response.kind = "json"
          /\ rt.response.status # 200
          /\ "error" \in DOMAIN rt.response.body

\* the five handlers that parse the body inside their try do contain them
FailuresContainedOutsideMcpDemo ==
    rt.name # "mcp-demo" =>
        /\ ~rt.escaped
        /\ (rt.pc = "done" /\ rt.failed \in {"body", "backend"}) =>
              /\ rt.response.kind = "json"
              /\ rt.response.status # 200
              /\ "error" \in DOMAIN rt.response.body

\* C21: once the generator's sequence has ended or failed, the response stream
\* of a stream-object request reaches a terminal state: it is closed or
\* errored, and does not stay open forever.
C21_StreamReachesTerminalState ==
    (route = "stream-object" /\ state # "none" /\ generator \in {"ended", "failed"})
        ~> (state \in {"closed", "errored"})

C21_Witness ==
    /\ route = "stream-object"
    /\ generator = "ended"
    /\ ~cancelled
    /\ state = "closed"
    /\ delivered = enqueued
    /\ Len(delivered) = 2

\* the frame stream-text sends for a part
PartFrame(p) == [type |-> p.type, data |-> p]

TextStreaming == rt.name = "stream-text" /\ rt.stream # "none"

\* C27 as stated: stream-text relays every part of fullStream as exactly one
\* newline-terminated frame {type: part.type, data: part}, in order, with no
\* frame of its own; the stream is closed after the last part, and a failure
\* while iterating errors the stream with no further frame.
C27_EveryPartRelayed ==
    TextStreaming =>
        /\ UnterminatedTail(rt.chunks) = <<>>
        /\ FramesOf(rt.chunks) = [i \in 1..Len(rt.parts) |-> PartFrame(rt.parts[i])]
        /\ rt.source = "ended" => rt.stream = "closed"
        /\ rt.source = "failed" => rt.stream = "errored"

\* the parts that were enqueued: all of them, but for the one taken after the
\* caller had cancelled
RelayedParts ==
    IF rt.source = "returned" THEN SubSeq(rt.parts, 1, Len(rt.parts) - 1) ELSE rt.parts

\* C27, amended: while the caller is connected, every part of fullStream is
\* relayed as exactly one newline-terminated frame {type: part.type, data:
\* part}, in order, with no frame of the handler's own; the stream is closed
\* after the last part and errored, with no further frame, by a failure while
\* iterating.  After the caller has cancelled, the one part still taken is
\* dropped and the stream stays closed.
C27_EveryPartRelayedUntilCancel ==
    TextStreaming =>
        /\ UnterminatedTail(rt.chunks) = <<>>
        /\ Len(rt.chunks) = Len(RelayedParts)
        /\ FramesOf(rt.chunks) = [i \in 1..Len(RelayedParts) |-> PartFrame(RelayedParts[i])]
        /\ rt.source = "returned" => rt.cancelled
        /\ rt.source = "ended" => rt.stream = "closed"
        /\ rt.source = "failed" => rt.stream = (IF rt.cancelled THEN "closed" ELSE "errored")

C27_Witness ==
    /\ TextStreaming
    /\ ~rt.cancelled
    /\ rt.source = "ended"
    /\ rt.stream = "closed"
    /\ rt.parts = <<[type |-> "text-delta", textDelta |-> "x"], [type |-> "finish"]>>
    /\ FramesOf(rt.chunks) = <<PartFrame(rt.parts[1]), PartFrame(rt.parts[2])>>

GenerateObjectRequest == rt.name = "generate-object" /\ rt.body.json /\ rt.pc # "start"

\* C28: in generate-object a request whose type is none of recipe, person,
\* product-list, classification, no-schema is answered with HTTP 400
\* {error: 'Invalid type'} and causes no backend call; a request with one of
\* the five types causes exactly one backend call, and its 200 response
\* carries the request's type.
C28_TypeSelectsTheCase ==
    GenerateObjectRequest =>
        IF rt.body.type \notin ObjectTypes
        THEN /\ rt.pc = "done"
             /\ rt.response = JsonError(400, "Invalid type")
             /\ rt.calls = <<>>
        ELSE /\ rt.calls = <<"generateObject">>
             /\ (rt.pc = "done" /\ rt.failed = "none") =>
                   /\ rt.response.status = 200
                   /\ rt.response.kind = "json"
                   /\ rt.response.body.type = rt.body.type
                   /\ DOMAIN rt.response.body = {"object", "type"}

C28_Witness ==
    /\ GenerateObjectRequest
    /\ rt.body.type = "classification"
    /\ rt.pc = "done"
    /\ rt.response.status = 200
    /\ rt.response.body.type = "classification"

\* C29: in generate-object every backend failure is answered with HTTP 500,
\* never 200: a failure named AI_NoObjectGeneratedError with {error: 'Failed
\* to generate valid object', details: {text, cause}}, every other failure
\* with {error: 'Failed to generate object'} and no details field.
C29_BackendFailureIs500 ==
    (rt.name = "generate-object" /\ rt.failed = "backend") =>
        /\ rt.response.status = 500
        /\ rt.response.kind = "json"
        /\ IF rt.error = "AI_NoObjectGeneratedError"
           THEN /\ DOMAIN rt.response.body = {"error", "details"}
                /\ rt.response.body.error = "Failed to generate valid object"
           ELSE rt.response.body = [error |-> "Failed to generate object"]

C29_Witness ==
    /\ rt.name = "generate-object"
    /\ rt.failed = "backend"
    /\ rt.error = "AI_NoObjectGeneratedError"
    /\ rt.response.status = 500
    /\ "details" \in DOMAIN rt.response.body

----------------------------------------------------------------------------
(* Properties of the client pages *)

RECURSIVE NewlinesIn(_)
NewlinesIn(tokens) ==
    IF tokens = <<>> THEN 0
    ELSE (IF Head(tokens) = "\n" THEN 1 ELSE 0) + NewlinesIn(Tail(tokens))

\* the lines of the body whose newline the page has received
Arrived == SubSeq(page.sent, 1, NewlinesIn(page.received))

WellFormed(line) == ~IsBlankLine(line) /\ JSONParse(line) # SyntaxError

\* the frames of the well-formed lines among the given ones, in order
RECURSIVE ParsedOf(_)
ParsedOf(lines) ==
    IF lines = <<>> THEN <<>>
    ELSE (IF WellFormed(Head(lines)) THEN <<JSONParse(Head(lines))>> ELSE <<>>)
         \o ParsedOf(Tail(lines))

Failures == {"fetch rejected", "not ok", "read failed"}

\* a submission of the page has got its response and no failure has been caught
Reading == page.phase = "reading" \/ page.outcome = "ended"

\* C22: whatever way the bytes of a body of newline-terminated JSON frames are
\* cut into chunks, the read loop has parsed exactly the frames whose newline
\* has arrived, each once and in order; its buffer holds what follows the last
\* newline, and it is empty, with every frame parsed, when the stream ends.
C22_ChunkingIndependent ==
    (Reading /\ \A i \in DOMAIN page.sent : WellFormed(page.sent[i])) =>
        /\ page.seen = [i \in 1..Len(Arrived) |-> JSONParse(Arrived[i])]
        /\ page.buffer = UnterminatedTail(<<page.received>>)
        /\ page.outcome = "ended" =>
              /\ page.seen = [i \in 1..Len(page.sent) |-> JSONParse(page.sent[i])]
              /\ page.buffer = <<>>

C22_Witness ==
    /\ page.phase = "reading"
    /\ Len(page.sent) = 2
    /\ \A i \in DOMAIN page.sent : WellFormed(page.sent[i])
    /\ Len(page.seen) = 1
    /\ Len(page.buffer) = 2
    /\ page.wire # <<>>

\* the values the page shows
Visible(p) ==
    <<p.detectedIntent, p.partialObject, p.isComplete, p.events, p.generatedText>>

\* the page state after handling the given frames, starting from the reset state
RECURSIVE Replay(_, _)
Replay(p, frames) ==
    IF frames = <<>> THEN p
    ELSE Replay(IF p.kind = "stream-object"
                THEN ObjectEvent(p, Head(frames)) ELSE TextEvent(p, Head(frames)),
                Tail(frames))

\* C23: a line that fails JSON parsing is passed over: it changes no page
\* state and does not stop the loop.  The frames handled are those of the
\* well-formed lines that have arrived, in order, bad lines before them or
\* not, and the page shows what it would show had only these lines been sent.
C23_BadLineSkipped ==
    Reading =>
        /\ page.seen = ParsedOf(Arrived)
        /\ Visible(page) = Visible(Replay(InitialPage(page.kind), ParsedOf(Arrived)))

C23_Witness ==
    /\ page.outcome = "ended"
    /\ Len(page.sent) = 2
    /\ page.sent[1] = BadLine
    /\ WellFormed(page.sent[2])
    /\ page.seen = <<JSONParse(page.sent[2])>>

\* C24: after a submission of the stream-object page has ended, isStreaming
\* is false; isComplete is true only if a complete frame was received in that
\* submission; and if the response was not OK or reading the stream failed,
\* partialObject is {error: 'Failed to stream object'} and isComplete is false.
C24_StateAfterSubmission ==
    (page.kind = "stream-object" /\ page.phase = "idle" /\ page.outcome # "none") =>
        /\ ~page.isStreaming
        /\ page.isComplete => \E i \in DOMAIN page.seen : page.seen[i].type = "complete"
        /\ page.outcome \in Failures =>
              /\ page.partialObject = <<ErrorObject>>
              /\ ~page.isComplete

\* the parts of C24 that do not concern isComplete after a failure
StateAfterSubmissionButIsComplete ==
    (page.kind = "stream-object" /\ page.phase = "idle" /\ page.outcome # "none") =>
        /\ ~page.isStreaming
        /\ page.isComplete => \E i \in DOMAIN page.seen : page.seen[i].type = "complete"
        /\ page.outcome \in Failures => page.partialObject = <<ErrorObject>>

\* C25: at most one response stream is being consumed at any time.  A submit
\* event that arrives while the page is streaming, or with a blank prompt,
\* changes nothing (but the count of submit events) and starts no request; a
\* request is started only by a page that is not streaming.
C25_OneStreamAtATime ==
    [][/\ page'.active <= 1
       /\ (page'.active = 1) = page'.isStreaming
       /\ (page'.submits # page.submits /\ (page.isStreaming \/ Blank(page.prompt))) =>
             [page' EXCEPT !.submits = page.submits] = page
       /\ page'.requests # page.requests =>
             /\ ~page.isStreaming
             /\ ~Blank(page.prompt)
             /\ page.active = 0]_vars

C25_Witness ==
    /\ page.submits = 2
    /\ page.requests = 1
    /\ page.isStreaming
    /\ page.phase = "reading"
    /\ page.received # <<>>

\* the concatenation of data.textDelta over the text-delta frames
RECURSIVE DeltasOf(_)
DeltasOf(frames) ==
    IF frames = <<>> THEN <<>>
    ELSE (IF Head(frames).type = "text-delta"
          THEN <<Head(frames).data.textDelta>> ELSE <<>>)
         \o DeltasOf(Tail(frames))

\* C26: in the stream-text page, events is the sequence of the frames parsed
\* so far, in arrival order, followed by exactly one error event when the
\* request or the stream has failed; generatedText is the concatenation of
\* data.textDelta over the text-delta frames, and no other frame changes it.
C26_EventsAndGeneratedText ==
    (page.kind = "stream-text" /\ page.requests > 0) =>
        /\ page.events =
              ParsedOf(Arrived) \o (IF page.outcome \in Failures THEN <<ErrorEvent>> ELSE <<>>)
        /\ page.generatedText = DeltasOf(ParsedOf(Arrived))

C26_Witness ==
    /\ page.kind = "stream-text"
    /\ page.outcome = "read failed"
    /\ page.generatedText = <<"x", "y">>
    /\ Len(page.events) = 3
    /\ page.events[3] = ErrorEvent

====
